---- MODULE Spec2Model ----
(***************************************************************************)
(* A model of the koven oven emulator: the oven state machine of koven.c   *)
(* (koven_init, koven_execute, koven_tick) as it is driven by main.c and   *)
(* mqtt_client.c, and as it is called on hand-built Oven values by         *)
(* tests/test_koven.c.                                                     *)
(***************************************************************************)
EXTENDS Integers, Sequences, FiniteSets, TLC

VARIABLES
    koven,   \* the Koven struct: the one Oven instance (main.c:17)
    event,   \* the caller's EventPayload: <<>> until a tick has filled it, then <<payload>>
    pre,     \* history: the Koven struct as it was when the last call was entered
    last,    \* history: the last call made on the oven and its arguments
    calls,   \* number of calls made by the unit-test harness (stays 0 under the driver)
    codec_call,  \* the call made on the frame codec of protocol.c, with its arguments
    codec_ret,   \* what that call returned, once it has returned
    tick_pc,     \* the line of koven.c the loop thread of mqtt_client_run is at
    tick_reg,    \* the value the loop thread has loaded and not yet stored
    exec_pc,     \* the line of koven.c the callback thread (message_arrived) is at
    exec_cmd,    \* the CommandPayload the callback thread is executing
    cycle        \* history: the Start that began the cycle under test, and the ticks since

oven_vars == <<koven, event, pre, last, calls>>
codec_vars == <<codec_call, codec_ret>>
race_vars == <<tick_pc, tick_reg, exec_pc, exec_cmd>>
vars == <<koven, event, pre, last, calls, codec_call, codec_ret, tick_pc,
          tick_reg, exec_pc, exec_cmd, cycle>>

----------------------------------------------------------------------------
(* Bounds of the model *)

\* Start commands of the driver model ask for at most ROOM_TEMPERATURE + MaxHeat degrees
MaxHeat == 2
\* Start commands of the driver model ask for at most MaxDuration seconds
MaxDuration == 1
\* the unit-test harness makes at most MaxCalls calls on the Oven it built
MaxCalls == 2

----------------------------------------------------------------------------
(* Constants of the program *)

STATE_IDLE == 0
STATE_PREHEATING == 1
STATE_BAKING == 2
STATE_COOLING_DOWN == 3

ACTION_START == 1
ACTION_STOP == 2

ROOM_TEMPERATURE == 25

INT16_MIN == -32768
INT16_MAX == 32767

State == {STATE_IDLE, STATE_PREHEATING, STATE_BAKING, STATE_COOLING_DOWN}

\* the value an int16_t field holds after being assigned the int x
\* (two's-complement wrap-around of the conversion back from int)
ToInt16(x) == ((x - INT16_MIN) % 65536) + INT16_MIN

\* pointers: NULL, or a pointer to a value
NULL == <<>>
Ptr(x) == <<x>>
Deref(p) == p[1]

\* no codec call has been made, nothing has been returned
NoCall == [fn |-> "none", data |-> NULL, len |-> 0, out |-> FALSE]
NoReturn == [done |-> FALSE, rc |-> 0, cmd |-> NULL]
CodecUnused == codec_call = NoCall /\ codec_ret = NoReturn

\* no cycle is under test
NoCycle == [cmd |-> NULL, ticks |-> 0]
CycleUnused == cycle = NoCycle

\* both threads are outside koven.c: the loop sleeps, the callback waits for a message
ThreadsOutside ==
    tick_pc = "sleep" /\ tick_reg = 0 /\ exec_pc = "wait" /\ exec_cmd = NULL

----------------------------------------------------------------------------
(* koven.c *)

\* koven_init as it would be if it forgot the timer: remaining_time is left as found
koven_init_keeps_timer(k) ==
    [k EXCEPT !.state = STATE_IDLE,
              !.current_temperature = ROOM_TEMPERATURE,
              !.programmed_duration = -1,
              !.programmed_temperature = -1]

koven_init(k) ==
    [k EXCEPT !.state = STATE_IDLE,
              !.current_temperature = ROOM_TEMPERATURE,
              !.remaining_time = -1,
              !.programmed_duration = -1,
              !.programmed_temperature = -1]

\* the start case with the two assignments crossed
execute_start_crossed(k, cmd) ==
    IF k.state = STATE_IDLE
    THEN [k EXCEPT !.state = STATE_PREHEATING,
                   !.programmed_duration = cmd.temperature,
                   !.programmed_temperature = cmd.duration]
    ELSE k

\* the start case without its test of the state
execute_start_unguarded(k, cmd) ==
    [k EXCEPT !.state = STATE_PREHEATING,
              !.programmed_duration = cmd.duration,
              !.programmed_temperature = cmd.temperature]

\* the start case taking a new target and duration while the oven preheats or bakes
execute_start_retargets(k, cmd) ==
    IF k.state = STATE_IDLE
    THEN [k EXCEPT !.state = STATE_PREHEATING,
                   !.programmed_duration = cmd.duration,
                   !.programmed_temperature = cmd.temperature]
    ELSE IF k.state \in {STATE_PREHEATING, STATE_BAKING}
    THEN [k EXCEPT !.programmed_duration = cmd.duration,
                   !.programmed_temperature = cmd.temperature]
    ELSE k

\* case ACTION_START of koven_execute
execute_start(k, cmd) ==
    IF k.state = STATE_IDLE
    THEN [k EXCEPT !.state = STATE_PREHEATING,
                   !.programmed_duration = cmd.duration,
                   !.programmed_temperature = cmd.temperature]
    ELSE k

\* the stop case as a full reset, room temperature included
execute_stop_resets_all(k) == koven_init(k)

\* case ACTION_STOP of koven_execute
execute_stop(k) ==
    [k EXCEPT !.state = STATE_IDLE,
              !.remaining_time = -1,
              !.programmed_temperature = -1,
              !.programmed_duration = -1]

\* koven_execute(koven, cmd): kp and cp are the two pointers; the value is the
\* content of the Oven afterwards (k is the Oven that kp points to, when it is not NULL)
koven_execute(k, kp, cp) ==
    IF kp = NULL \/ cp = NULL THEN k
    ELSE LET cmd == Deref(cp) IN
         CASE cmd.action = ACTION_START -> execute_start(Deref(kp), cmd)
           [] cmd.action = ACTION_STOP  -> execute_stop(Deref(kp))
           [] OTHER                     -> Deref(kp)

\* the preheating branch heating once more when the target is already reached
tick_preheating_overshoots(k) ==
    IF k.current_temperature <= k.programmed_temperature
    THEN [k EXCEPT !.current_temperature = ToInt16(k.current_temperature + 1)]
    ELSE [k EXCEPT !.state = STATE_BAKING,
                   !.remaining_time = k.programmed_duration]

\* the preheating branch going straight to cooling down at the target
tick_preheating_skips_baking(k) ==
    IF k.current_temperature < k.programmed_temperature
    THEN [k EXCEPT !.current_temperature = ToInt16(k.current_temperature + 1)]
    ELSE [k EXCEPT !.state = STATE_COOLING_DOWN,
                   !.remaining_time = k.programmed_duration]

\* the preheating branch entering Baking on the tick that reaches the target
tick_preheating_bakes_on_arrival(k) ==
    IF k.current_temperature + 1 < k.programmed_temperature
    THEN [k EXCEPT !.current_temperature = ToInt16(k.current_temperature + 1)]
    ELSE [k EXCEPT !.state = STATE_BAKING,
                   !.current_temperature = k.programmed_temperature,
                   !.remaining_time = k.programmed_duration]

\* the preheating branch heating for as long as the temperature is not the target
tick_preheating_until_equal(k) ==
    IF k.current_temperature # k.programmed_temperature
    THEN [k EXCEPT !.current_temperature = ToInt16(k.current_temperature + 1)]
    ELSE [k EXCEPT !.state = STATE_BAKING,
                   !.remaining_time = k.programmed_duration]

\* the PREHEATING branch of koven_tick
tick_preheating(k) ==
    IF k.current_temperature < k.programmed_temperature
    THEN [k EXCEPT !.current_temperature = ToInt16(k.current_temperature + 1)]
    ELSE [k EXCEPT !.state = STATE_BAKING,
                   !.remaining_time = k.programmed_duration]

\* the baking branch leaving one second early
tick_baking_one_early(k) ==
    IF k.remaining_time > 1
    THEN [k EXCEPT !.remaining_time = ToInt16(k.remaining_time - 1)]
    ELSE IF k.current_temperature > ROOM_TEMPERATURE
         THEN [k EXCEPT !.state = STATE_COOLING_DOWN,
                        !.programmed_temperature = -1,
                        !.programmed_duration = -1]
         ELSE koven_init(k)

\* the baking branch keeping the programme when it starts to cool
tick_baking_keeps_programme(k) ==
    IF k.remaining_time > 0
    THEN [k EXCEPT !.remaining_time = ToInt16(k.remaining_time - 1)]
    ELSE IF k.current_temperature > ROOM_TEMPERATURE
         THEN [k EXCEPT !.state = STATE_COOLING_DOWN]
         ELSE koven_init(k)

\* the baking branch clearing the timer too when it starts to cool
tick_baking_clears_timer(k) ==
    IF k.remaining_time > 0
    THEN [k EXCEPT !.remaining_time = ToInt16(k.remaining_time - 1)]
    ELSE IF k.current_temperature > ROOM_TEMPERATURE
         THEN [k EXCEPT !.state = STATE_COOLING_DOWN,
                        !.remaining_time = -1,
                        !.programmed_temperature = -1,
                        !.programmed_duration = -1]
         ELSE koven_init(k)

\* the baking branch without the koven_init of an oven that ends at room temperature
tick_baking_stuck_at_room(k) ==
    IF k.remaining_time > 0
    THEN [k EXCEPT !.remaining_time = ToInt16(k.remaining_time - 1)]
    ELSE IF k.current_temperature > ROOM_TEMPERATURE
         THEN [k EXCEPT !.state = STATE_COOLING_DOWN,
                        !.programmed_temperature = -1,
                        !.programmed_duration = -1]
         ELSE k

\* the BAKING branch of koven_tick
tick_baking(k) ==
    IF k.remaining_time > 0
    THEN [k EXCEPT !.remaining_time = ToInt16(k.remaining_time - 1)]
    ELSE IF k.current_temperature > ROOM_TEMPERATURE
         THEN [k EXCEPT !.state = STATE_COOLING_DOWN,
                        !.programmed_temperature = -1,
                        !.programmed_duration = -1]
         ELSE koven_init(k)

\* the cooling branch going back to idle without the reset of koven_init
tick_cooling_down_no_reset(k) ==
    IF k.current_temperature > ROOM_TEMPERATURE
    THEN [k EXCEPT !.current_temperature = ToInt16(k.current_temperature - 1)]
    ELSE [k EXCEPT !.state = STATE_IDLE]

\* the cooling branch going back to idle on the tick that reaches room temperature
tick_cooling_down_resets_on_arrival(k) ==
    IF k.current_temperature > ROOM_TEMPERATURE + 1
    THEN [k EXCEPT !.current_temperature = ToInt16(k.current_temperature - 1)]
    ELSE koven_init(k)

\* the cooling branch still cooling at room temperature
tick_cooling_down_cools_at_room(k) ==
    IF k.current_temperature >= ROOM_TEMPERATURE
    THEN [k EXCEPT !.current_temperature = ToInt16(k.current_temperature - 1)]
    ELSE koven_init(k)

\* the COOLING_DOWN branch of koven_tick
tick_cooling_down(k) ==
    IF k.current_temperature > ROOM_TEMPERATURE
    THEN [k EXCEPT !.current_temperature = ToInt16(k.current_temperature - 1)]
    ELSE koven_init(k)

\* the chain with a last branch that cools an idle oven that is still hot
tick_transition_idle_cools(k) ==
    IF k.state = STATE_PREHEATING THEN tick_preheating(k)
    ELSE IF k.state = STATE_BAKING THEN tick_baking(k)
    ELSE IF k.state = STATE_COOLING_DOWN THEN tick_cooling_down(k)
    ELSE IF k.current_temperature > ROOM_TEMPERATURE
         THEN [k EXCEPT !.current_temperature = ToInt16(k.current_temperature - 1)]
         ELSE k

\* the if / else if chain of koven_tick on the state the tick is entered with
tick_transition(k) ==
    IF k.state = STATE_PREHEATING THEN tick_preheating(k)
    ELSE IF k.state = STATE_BAKING THEN tick_baking(k)
    ELSE IF k.state = STATE_COOLING_DOWN THEN tick_cooling_down(k)
    ELSE k

\* the EventPayload koven_tick fills from the Oven at its end
event_of(k) ==
    [state |-> k.state,
     current_temperature |-> k.current_temperature,
     remaining_time |-> k.remaining_time,
     programmed_duration |-> k.programmed_duration,
     programmed_temperature |-> k.programmed_temperature]

\* koven_tick filling the EventPayload before the transition instead of after it
koven_tick_snapshot_before(k, e, kp, ep) ==
    IF kp = NULL \/ ep = NULL THEN <<k, e>>
    ELSE <<tick_transition(Deref(kp)), Ptr(event_of(Deref(kp)))>>

\* koven_tick guarding only the write of the EventPayload, not the transition
koven_tick_updates_without_event(k, e, kp, ep) ==
    IF kp = NULL THEN <<k, e>>
    ELSE LET k2 == tick_transition(Deref(kp)) IN
         <<k2, IF ep = NULL THEN e ELSE Ptr(event_of(k2))>>

\* koven_tick(koven, event): kp and ep are the two pointers, k and e the Oven and
\* the EventPayload as they are on entry; the value is <<Oven, EventPayload>> afterwards
koven_tick(k, e, kp, ep) ==
    IF kp = NULL \/ ep = NULL THEN <<k, e>>
    ELSE LET k2 == tick_transition(Deref(kp)) IN <<k2, Ptr(event_of(k2))>>

----------------------------------------------------------------------------
(* protocol.c *)

MSG_TYPE_COMMAND == 1
\* sizeof(CommandPayload): the packed struct of a uint8_t and two int16_t
COMMAND_PAYLOAD_SIZE == 5

\* data[i] of a C array held as a sequence
At(data, i) == data[i + 1]

\* the value a uint16_t holds after being assigned the int x
ToUint16(x) == x % 65536

\* bit k of a ^ b
XorBit(a, b, k) == (((a \div (2 ^ k)) % 2) + ((b \div (2 ^ k)) % 2)) % 2

\* a ^ b on one byte
Xor8(a, b) ==
    XorBit(a, b, 0) + 2 * XorBit(a, b, 1) + 4 * XorBit(a, b, 2) + 8 * XorBit(a, b, 3)
    + 16 * XorBit(a, b, 4) + 32 * XorBit(a, b, 5) + 64 * XorBit(a, b, 6)
    + 128 * XorBit(a, b, 7)

\* a ^ b on uint16_t
Xor16(a, b) == Xor8(a % 256, b % 256) + 256 * Xor8(a \div 256, b \div 256)

\* the inner loop of crc16_usb, j turns of it: if (crc & 0x0001) crc = (crc >> 1) ^
\* 0xA001 else crc = crc >> 1; 40961 is 0xA001
RECURSIVE crc16_bits(_, _)
crc16_bits(crc, j) ==
    IF j = 0 THEN crc
    ELSE IF crc % 2 = 1
         THEN crc16_bits(Xor16(crc \div 2, 40961), j - 1)
         ELSE crc16_bits(crc \div 2, j - 1)

\* the outer loop of crc16_usb from index i on
RECURSIVE crc16_bytes(_, _, _, _)
crc16_bytes(data, i, length, crc) ==
    IF i >= length THEN crc
    ELSE crc16_bytes(data, i + 1, length, crc16_bits(Xor16(crc, At(data, i)), 8))

\* crc16_usb without the final XOR
crc16_usb_no_final_xor(data, length) == crc16_bytes(data, 0, length, 65535)

\* crc16_usb(data, length); 65535 is 0xFFFF
crc16_usb(data, length) == Xor16(crc16_bytes(data, 0, length, 65535), 65535)

\* uint16_to_le(value, bytes): the two bytes written
uint16_to_le(value) == <<value % 256, (value \div 256) % 256>>

\* le_to_uint16(&data[i])
le_to_uint16(data, i) == At(data, i) + 256 * At(data, i + 1)

\* le_to_int16 without its cast to int16_t
le_to_int16_unsigned(data, i) == le_to_uint16(data, i)

\* le_to_int16(&data[i])
le_to_int16(data, i) == ToInt16(le_to_uint16(data, i))

\* int16_to_le(value, bytes): the two bytes written
int16_to_le(value) == uint16_to_le(ToUint16(value))

\* what unmarshall_command_frame gives back: the int returned and the CommandPayload
\* behind cmd (cp as it was when nothing was written)
Unmarshalled(rc, cp) == [done |-> TRUE, rc |-> rc, cmd |-> cp]

\* unmarshall_command_frame returning a result of its own for a CRC mismatch
unmarshall_command_frame_crc_code(dp, len, cp) ==
    IF dp = NULL \/ cp = NULL \/ len < 10 THEN Unmarshalled(-1, cp)
    ELSE LET data == Deref(dp)
             msg_type == At(data, 0)
             payload_size == le_to_uint16(data, 1)
         IN  IF msg_type # MSG_TYPE_COMMAND THEN Unmarshalled(-1, cp)
             ELSE IF payload_size # COMMAND_PAYLOAD_SIZE THEN Unmarshalled(-1, cp)
             ELSE IF len < 1 + 2 + payload_size + 2 THEN Unmarshalled(-1, cp)
             ELSE IF le_to_uint16(data, 3 + payload_size)
                        # crc16_usb(data, 3 + payload_size)
                  THEN Unmarshalled(-2, cp)
             ELSE Unmarshalled(0, Ptr([action |-> At(data, 3),
                                       temperature |-> le_to_int16(data, 3 + 1),
                                       duration |-> le_to_int16(data, 3 + 3)]))

\* unmarshall_command_frame without the comparison of the message type
unmarshall_command_frame_any_type(dp, len, cp) ==
    IF dp = NULL \/ cp = NULL \/ len < 10 THEN Unmarshalled(-1, cp)
    ELSE LET data == Deref(dp)
             payload_size == le_to_uint16(data, 1)
         IN  IF payload_size # COMMAND_PAYLOAD_SIZE THEN Unmarshalled(-1, cp)
             ELSE IF len < 1 + 2 + payload_size + 2 THEN Unmarshalled(-1, cp)
             ELSE IF le_to_uint16(data, 3 + payload_size)
                        # crc16_usb(data, 3 + payload_size)
                  THEN Unmarshalled(-1, cp)
             ELSE Unmarshalled(0, Ptr([action |-> At(data, 3),
                                       temperature |-> le_to_int16(data, 3 + 1),
                                       duration |-> le_to_int16(data, 3 + 3)]))

\* unmarshall_command_frame comparing only the low byte of the CRC
unmarshall_command_frame_crc_low_byte(dp, len, cp) ==
    IF dp = NULL \/ cp = NULL \/ len < 10 THEN Unmarshalled(-1, cp)
    ELSE LET data == Deref(dp)
             msg_type == At(data, 0)
             payload_size == le_to_uint16(data, 1)
         IN  IF msg_type # MSG_TYPE_COMMAND THEN Unmarshalled(-1, cp)
             ELSE IF payload_size # COMMAND_PAYLOAD_SIZE THEN Unmarshalled(-1, cp)
             ELSE IF len < 1 + 2 + payload_size + 2 THEN Unmarshalled(-1, cp)
             ELSE IF At(data, 3 + payload_size)
                        # crc16_usb(data, 3 + payload_size) % 256
                  THEN Unmarshalled(-1, cp)
             ELSE Unmarshalled(0, Ptr([action |-> At(data, 3),
                                       temperature |-> le_to_int16(data, 3 + 1),
                                       duration |-> le_to_int16(data, 3 + 3)]))

\* unmarshall_command_frame taking the CRC from the last two bytes of the input and
\* computing it over all the bytes before them
unmarshall_command_frame_crc_at_end(dp, len, cp) ==
    IF dp = NULL \/ cp = NULL \/ len < 10 THEN Unmarshalled(-1, cp)
    ELSE LET data == Deref(dp)
             msg_type == At(data, 0)
             payload_size == le_to_uint16(data, 1)
         IN  IF msg_type # MSG_TYPE_COMMAND THEN Unmarshalled(-1, cp)
             ELSE IF payload_size # COMMAND_PAYLOAD_SIZE THEN Unmarshalled(-1, cp)
             ELSE IF len < 1 + 2 + payload_size + 2 THEN Unmarshalled(-1, cp)
             ELSE IF le_to_uint16(data, len - 2) # crc16_usb(data, len - 2)
                  THEN Unmarshalled(-1, cp)
             ELSE Unmarshalled(0, Ptr([action |-> At(data, 3),
                                       temperature |-> le_to_int16(data, 3 + 1),
                                       duration |-> le_to_int16(data, 3 + 3)]))

\* unmarshall_command_frame(data, len, cmd): dp and cp are the two pointers
unmarshall_command_frame(dp, len, cp) ==
    IF dp = NULL \/ cp = NULL \/ len < 10 THEN Unmarshalled(-1, cp)
    ELSE LET data == Deref(dp)
             msg_type == At(data, 0)
             payload_size == le_to_uint16(data, 1)
         IN  IF msg_type # MSG_TYPE_COMMAND THEN Unmarshalled(-1, cp)
             ELSE IF payload_size # COMMAND_PAYLOAD_SIZE THEN Unmarshalled(-1, cp)
             ELSE IF len < 1 + 2 + payload_size + 2 THEN Unmarshalled(-1, cp)
             ELSE IF le_to_uint16(data, 3 + payload_size)
                        # crc16_usb(data, 3 + payload_size)
                  THEN Unmarshalled(-1, cp)
             ELSE Unmarshalled(0, Ptr([action |-> At(data, 3),
                                       temperature |-> le_to_int16(data, 3 + 1),
                                       duration |-> le_to_int16(data, 3 + 3)]))

\* the line of protocol.c whose return statement ends the call
\* unmarshall_command_frame(data, len, cmd)
unmarshall_return_line(dp, len, cp) ==
    IF dp = NULL \/ cp = NULL \/ len < 10 THEN 63
    ELSE LET data == Deref(dp)
             msg_type == At(data, 0)
             payload_size == le_to_uint16(data, 1)
             expected_len == 1 + 2 + payload_size + 2
         IN  IF msg_type # MSG_TYPE_COMMAND THEN 76
             ELSE IF payload_size # COMMAND_PAYLOAD_SIZE THEN 85
             ELSE IF len < expected_len THEN 93
             ELSE IF le_to_uint16(data, 3 + payload_size)
                        # crc16_usb(data, 3 + payload_size)
                  THEN 105
             ELSE 114

\* protocol.h:10 and sizeof(EventPayload), a packed struct of one byte and four int16
MSG_TYPE_EVENT == 2
EVENT_PAYLOAD_SIZE == 9

\* what marshall_event_frame returned: its result and the caller's buffer afterwards
\* (the out-parameter field of the return record holds the buffer pointer)
Marshalled(rc, bp) == [done |-> TRUE, rc |-> rc, cmd |-> bp]

\* marshall_event_frame storing programmed_temperature before programmed_duration
marshall_event_frame_fields_swapped(ep, bp, buffer_size) ==
    IF ep = NULL \/ bp = NULL THEN Marshalled(-1, bp)
    ELSE LET ev == Deref(ep)
             buffer == Deref(bp)
             payload_size == EVENT_PAYLOAD_SIZE
             frame_size == 1 + 2 + payload_size + 2
             body == <<MSG_TYPE_EVENT>> \o uint16_to_le(payload_size)
                     \o <<ev.state>>
                     \o int16_to_le(ev.current_temperature)
                     \o int16_to_le(ev.remaining_time)
                     \o int16_to_le(ev.programmed_temperature)
                     \o int16_to_le(ev.programmed_duration)
             crc == crc16_usb(body, 3 + payload_size)
         IN  IF buffer_size < frame_size THEN Marshalled(-1, bp)
             ELSE Marshalled(frame_size,
                             Ptr(body \o uint16_to_le(crc)
                                 \o SubSeq(buffer, frame_size + 1, Len(buffer))))

\* marshall_event_frame storing the header before it compares the buffer size
marshall_event_frame_writes_first(ep, bp, buffer_size) ==
    IF ep = NULL \/ bp = NULL THEN Marshalled(-1, bp)
    ELSE LET ev == Deref(ep)
             buffer == Deref(bp)
             payload_size == EVENT_PAYLOAD_SIZE
             frame_size == 1 + 2 + payload_size + 2
             body == <<MSG_TYPE_EVENT>> \o uint16_to_le(payload_size)
                     \o <<ev.state>>
                     \o int16_to_le(ev.current_temperature)
                     \o int16_to_le(ev.remaining_time)
                     \o int16_to_le(ev.programmed_duration)
                     \o int16_to_le(ev.programmed_temperature)
             crc == crc16_usb(body, 3 + payload_size)
         IN  IF buffer_size < frame_size
             THEN Marshalled(-1, Ptr([i \in 1 .. Len(buffer) |->
                                        IF i = 1 THEN MSG_TYPE_EVENT ELSE buffer[i]]))
             ELSE Marshalled(frame_size,
                             Ptr(body \o uint16_to_le(crc)
                                 \o SubSeq(buffer, frame_size + 1, Len(buffer))))

\* marshall_event_frame(event, buffer, buffer_size): ep and bp are the two pointers;
\* body is bytes 0-11 as lines 135-145 store them, the bytes of the buffer past the
\* frame keep what they held
marshall_event_frame(ep, bp, buffer_size) ==
    IF ep = NULL \/ bp = NULL THEN Marshalled(-1, bp)
    ELSE LET ev == Deref(ep)
             buffer == Deref(bp)
             payload_size == EVENT_PAYLOAD_SIZE
             frame_size == 1 + 2 + payload_size + 2
             body == <<MSG_TYPE_EVENT>> \o uint16_to_le(payload_size)
                     \o <<ev.state>>
                     \o int16_to_le(ev.current_temperature)
                     \o int16_to_le(ev.remaining_time)
                     \o int16_to_le(ev.programmed_duration)
                     \o int16_to_le(ev.programmed_temperature)
             crc == crc16_usb(body, 3 + payload_size)
         IN  IF buffer_size < frame_size THEN Marshalled(-1, bp)
             ELSE Marshalled(frame_size,
                             Ptr(body \o uint16_to_le(crc)
                                 \o SubSeq(buffer, frame_size + 1, Len(buffer))))

----------------------------------------------------------------------------
(* Values the model draws its inputs from *)

\* the record of the last call: op names the function, cmd is the CommandPayload
\* pointer given to koven_execute (NULL otherwise), oven_null and event_null tell
\* whether the Koven and EventPayload pointers given were NULL
Call(op, kp, cp, ep) ==
    [op |-> op, oven_null |-> (kp = NULL), cmd |-> cp, event_null |-> (ep = NULL)]

Command(a, t, d) == [action |-> a, temperature |-> t, duration |-> d]

\* the commands message_arrived hands to koven_execute: start with every target and
\* duration of the bounds, stop and an unknown action byte with two payloads each
DriverTemperatures ==
    {INT16_MIN} \cup (ROOM_TEMPERATURE - 1 .. ROOM_TEMPERATURE + MaxHeat)
DriverDurations == {INT16_MIN, -1} \cup (0 .. MaxDuration)
DriverCommands ==
    {Command(ACTION_START, t, d) : t \in DriverTemperatures, d \in DriverDurations}
    \cup {Command(a, 0, 0) : a \in {ACTION_STOP, 99}}
    \cup {Command(a, INT16_MAX, INT16_MIN) : a \in {ACTION_STOP, 99}}

\* the fields of a Koven that koven_init has not yet written (main.c: Koven koven;)
Uninitialized ==
    [state : {STATE_BAKING},
     current_temperature : {0, 200},
     remaining_time : {100},
     programmed_duration : {600},
     programmed_temperature : {180}]

\* the Oven values the unit tests build by hand before a call
TestOvens ==
    [state : State,
     current_temperature : {INT16_MIN, ROOM_TEMPERATURE - 1, ROOM_TEMPERATURE,
                            ROOM_TEMPERATURE + 1, INT16_MAX},
     remaining_time : {-1, 0, 1, INT16_MAX},
     programmed_duration : {-1, 0, INT16_MAX},
     programmed_temperature : {INT16_MIN, -1, ROOM_TEMPERATURE, ROOM_TEMPERATURE + 1,
                               INT16_MAX}]

TestCommands ==
    {Command(ACTION_START, t, d) : t \in {INT16_MIN, -1, ROOM_TEMPERATURE + 1, INT16_MAX},
                                   d \in {INT16_MIN, 0, INT16_MAX}}
    \cup {Command(a, 0, 0) : a \in {ACTION_STOP, 99}}
    \cup {Command(a, INT16_MAX, INT16_MIN) : a \in {ACTION_STOP, 99}}

----------------------------------------------------------------------------
(* The driver: main.c and mqtt_client.c *)

\* main: Koven koven; koven_init(&koven); then mqtt_client_run(&koven)
Init ==
    \E k \in Uninitialized :
        /\ koven = koven_init(k)
        /\ event = NULL
        /\ pre = k
        /\ last = Call("koven_init", Ptr(k), NULL, NULL)
        /\ calls = 0
        /\ CodecUnused
        /\ ThreadsOutside
        /\ CycleUnused

\* message_arrived: a frame that unmarshall_command_frame accepted is executed
MessageArrived ==
    \E cmd \in DriverCommands :
        /\ koven' = koven_execute(koven, Ptr(koven), Ptr(cmd))
        /\ pre' = koven
        /\ last' = Call("koven_execute", Ptr(koven), Ptr(cmd), NULL)
        /\ UNCHANGED <<event, calls, codec_vars, race_vars, cycle>>

\* one turn of the loop of mqtt_client_run: sleep(1); koven_tick(koven, &event)
Tick ==
    LET r == koven_tick(koven, event, Ptr(koven), Ptr(event)) IN
        /\ koven' = r[1]
        /\ event' = r[2]
        /\ pre' = koven
        /\ last' = Call("koven_tick", Ptr(koven), NULL, Ptr(event))
        /\ UNCHANGED <<calls, codec_vars, race_vars, cycle>>

Next == MessageArrived \/ Tick

Spec == Init /\ [][Next]_vars

----------------------------------------------------------------------------
(* The unit tests: tests/test_koven.c builds an Oven by hand and calls the core *)

InitTest ==
    /\ koven \in TestOvens
    /\ event = NULL
    /\ pre = koven
    /\ last = Call("none", NULL, NULL, NULL)
    /\ calls = 0
    /\ CodecUnused
    /\ ThreadsOutside
    /\ CycleUnused

TestInit ==
    /\ calls < MaxCalls
    /\ koven' = koven_init(koven)
    /\ pre' = koven
    /\ last' = Call("koven_init", Ptr(koven), NULL, NULL)
    /\ calls' = calls + 1
    /\ UNCHANGED <<event, codec_vars, race_vars, cycle>>

TestExecute ==
    /\ calls < MaxCalls
    /\ \E kp \in {NULL, Ptr(koven)}, cp \in {NULL} \cup {Ptr(c) : c \in TestCommands} :
        /\ koven' = koven_execute(koven, kp, cp)
        /\ last' = Call("koven_execute", kp, cp, NULL)
    /\ pre' = koven
    /\ calls' = calls + 1
    /\ UNCHANGED <<event, codec_vars, race_vars, cycle>>

TestTick ==
    /\ calls < MaxCalls
    /\ \E kp \in {NULL, Ptr(koven)}, ep \in {NULL, Ptr(event)} :
        LET r == koven_tick(koven, event, kp, ep) IN
            /\ koven' = r[1]
            /\ event' = r[2]
            /\ last' = Call("koven_tick", kp, NULL, ep)
    /\ pre' = koven
    /\ calls' = calls + 1
    /\ UNCHANGED <<codec_vars, race_vars, cycle>>

NextTest == TestInit \/ TestExecute \/ TestTick

SpecTest == InitTest /\ [][NextTest]_vars

----------------------------------------------------------------------------
(* The frame codec called on its own: tests/test_protocol.c builds a buffer and
   calls crc16_usb or unmarshall_command_frame on it *)

\* the commands the codec tests put in a frame
CodecCommands ==
    TestCommands
    \cup {Command(ACTION_START, 200, 480), Command(ACTION_START, -10, 480),
          Command(ACTION_START, INT16_MAX, INT16_MAX), Command(255, -10, INT16_MAX)}

\* a frame as the tests build it: header, payload, then the CRC of the first 8
\* bytes, low byte first
FrameOf(type, size, c) ==
    LET body == <<type>> \o uint16_to_le(size) \o <<c.action>>
                \o int16_to_le(c.temperature) \o int16_to_le(c.duration)
    IN  body \o uint16_to_le(crc16_usb(body, 8))

\* the byte b with its bit n (0 the lowest) inverted
FlipBitOfByte(b, n) ==
    IF (b \div (2 ^ n)) % 2 = 1 THEN b - 2 ^ n ELSE b + 2 ^ n

\* the frame f with bit n of its bytes inverted (bit 0 is the lowest bit of byte 0)
FlipBit(f, n) ==
    [f EXCEPT ![(n \div 8) + 1] = FlipBitOfByte(f[(n \div 8) + 1], n % 8)]

ValidFrames == {FrameOf(MSG_TYPE_COMMAND, COMMAND_PAYLOAD_SIZE, c) : c \in CodecCommands}
FlippedFrames == {FlipBit(f, n) : f \in ValidFrames, n \in 0 .. 79}
TruncatedFrames ==
    {SubSeq(FrameOf(MSG_TYPE_COMMAND, COMMAND_PAYLOAD_SIZE, c), 1, n) :
        c \in {Command(ACTION_START, 200, 480), Command(ACTION_STOP, 0, 0)}, n \in 0 .. 9}
ExtendedFrames ==
    {f \o t : f \in ValidFrames \cup {FlipBit(g, 70) : g \in ValidFrames},
              t \in {<<0>>, <<255, 1>>,
                     FrameOf(MSG_TYPE_COMMAND, COMMAND_PAYLOAD_SIZE, Command(ACTION_STOP, 0, 0))}}
WrongTypeFrames ==
    {FrameOf(t, COMMAND_PAYLOAD_SIZE, c) : t \in {0, 2, 255}, c \in CodecCommands}
WrongSizeFrames ==
    {FrameOf(MSG_TYPE_COMMAND, sz, c) : sz \in {0, 4, 6, 10, 261, 1280}, c \in CodecCommands}
WrongCrcFrames ==
    {SubSeq(f, 1, 8) \o <<255, 255>> : f \in ValidFrames}
    \cup {SubSeq(f, 1, 8) \o <<f[10], f[9]>> : f \in ValidFrames}

CodecFrames ==
    ValidFrames \cup FlippedFrames \cup TruncatedFrames \cup ExtendedFrames
    \cup WrongTypeFrames \cup WrongSizeFrames \cup WrongCrcFrames

\* "123456789"
CheckString == <<49, 50, 51, 52, 53, 54, 55, 56, 57>>

CrcInputs ==
    {CheckString, <<>>, <<170>>, <<1, 2, 3, 4, 5>>,
     <<0, 0, 0, 0, 0, 0, 0, 0, 0, 0>>,
     <<255, 255, 255, 255, 255, 255, 255, 255, 255, 255>>}

CodecCall(fn, dp, len, out) == [fn |-> fn, data |-> dp, len |-> len, out |-> out]

\* the calls of the codec tests; out tells whether a CommandPayload is passed
CodecCalls ==
    {CodecCall("unmarshall_command_frame", Ptr(f), Len(f), TRUE) : f \in CodecFrames}
    \cup {CodecCall("unmarshall_command_frame", Ptr(f), Len(f), FALSE) : f \in ValidFrames}
    \cup {CodecCall("unmarshall_command_frame", NULL, 10, TRUE)}
    \cup {CodecCall("crc16_usb", Ptr(d), Len(d), FALSE) : d \in CrcInputs}
    \cup {CodecCall("crc16_usb", NULL, 0, FALSE)}

\* an EventPayload as the caller fills it in
Event(s, ct, rt, pd, pt) ==
    [state |-> s, current_temperature |-> ct, remaining_time |-> rt,
     programmed_duration |-> pd, programmed_temperature |-> pt]

\* the events of the codec tests, and events with other state bytes and the extreme
\* values of a field
CodecEvents ==
    { Event(STATE_IDLE, 25, -1, -1, -1), Event(STATE_PREHEATING, 100, -1, 600, 180),
      Event(STATE_BAKING, 180, 300, 600, 180), Event(STATE_COOLING_DOWN, 80, -1, -1, -1),
      Event(STATE_BAKING, INT16_MAX, INT16_MAX, INT16_MAX, INT16_MAX),
      Event(STATE_IDLE, -10, -1, -1, -1),
      Event(255, INT16_MIN, INT16_MAX, -256, 255),
      Event(4, 256, -32767, INT16_MIN, -2), Event(128, -1, 0, 1, INT16_MIN) }

\* the sizes of the caller's buffer, and what each of its bytes holds before the call
BufferSizes == {0, 5, 13, 14, 15, 20}
BufferFills == {0, 170}
CodecBuffers == {[i \in 1 .. n |-> b] : n \in BufferSizes, b \in BufferFills}

\* the calls of marshall_event_frame: data is the event pointer, len the buffer size;
\* the buffer pointer is NULL or points to one of the buffers
MarshallCalls ==
    {CodecCall("marshall_event_frame", Ptr(ev), Len(buf), Ptr(buf)) :
        ev \in CodecEvents, buf \in CodecBuffers}
    \cup {CodecCall("marshall_event_frame", NULL, Len(buf), Ptr(buf)) : buf \in CodecBuffers}
    \cup {CodecCall("marshall_event_frame", Ptr(ev), 20, NULL) : ev \in CodecEvents}
    \cup {CodecCall("marshall_event_frame", NULL, 20, NULL)}

\* a frame of a command with a payload of 6 bytes, the sixth being b: 11 bytes with
\* the CRC of the first 9
FrameOfSix(c, b) ==
    LET body == <<MSG_TYPE_COMMAND>> \o uint16_to_le(6) \o <<c.action>>
                \o int16_to_le(c.temperature) \o int16_to_le(c.duration) \o <<b>>
    IN  body \o uint16_to_le(crc16_usb(body, 9))

\* inputs longer than 10 bytes: frames of 11 bytes that declare a payload of 6, and
\* frames of another type, of another declared size or cut to 9 bytes and refilled,
\* each followed by more bytes
LongFrames ==
    UNION { { FrameOfSix(c, 0), FrameOfSix(c, 255),
              FrameOf(MSG_TYPE_EVENT, COMMAND_PAYLOAD_SIZE, c) \o <<1, 2>>,
              FrameOf(MSG_TYPE_COMMAND, 6, c) \o <<0>>,
              FrameOf(MSG_TYPE_COMMAND, 4, c) \o FrameOf(MSG_TYPE_COMMAND, COMMAND_PAYLOAD_SIZE, c),
              SubSeq(FrameOf(MSG_TYPE_COMMAND, COMMAND_PAYLOAD_SIZE, c), 1, 9)
                  \o FrameOf(MSG_TYPE_COMMAND, COMMAND_PAYLOAD_SIZE, c) } :
            c \in {Command(ACTION_START, 200, 480), Command(ACTION_STOP, 0, 0),
                   Command(255, -10, INT16_MAX)} }

LongCalls == {CodecCall("unmarshall_command_frame", Ptr(f), Len(f), TRUE) : f \in LongFrames}

\* the CommandPayload local of the caller before unmarshall_command_frame wrote to it
UnwrittenCommand == Command(0, 0, 0)

InitCodec ==
    /\ koven \in {koven_init(k) : k \in Uninitialized}
    /\ event = NULL
    /\ pre = koven
    /\ last = Call("none", NULL, NULL, NULL)
    /\ calls = 0
    /\ codec_call \in CodecCalls \cup MarshallCalls \cup LongCalls
    /\ codec_ret = NoReturn
    /\ ThreadsOutside
    /\ CycleUnused

CallCrc16 ==
    /\ codec_call.fn = "crc16_usb"
    /\ ~codec_ret.done
    /\ codec_ret' =
         [done |-> TRUE,
          rc |-> crc16_usb(IF codec_call.data = NULL THEN <<>> ELSE Deref(codec_call.data),
                           codec_call.len),
          cmd |-> NULL]
    /\ UNCHANGED <<oven_vars, codec_call, race_vars, cycle>>

CallUnmarshall ==
    /\ codec_call.fn = "unmarshall_command_frame"
    /\ ~codec_ret.done
    /\ codec_ret' =
         unmarshall_command_frame(codec_call.data, codec_call.len,
                                  IF codec_call.out THEN Ptr(UnwrittenCommand) ELSE NULL)
    /\ UNCHANGED <<oven_vars, codec_call, race_vars, cycle>>

CallMarshall ==
    /\ codec_call.fn = "marshall_event_frame"
    /\ ~codec_ret.done
    /\ codec_ret' = marshall_event_frame(codec_call.data, codec_call.out, codec_call.len)
    /\ UNCHANGED <<oven_vars, codec_call, race_vars, cycle>>

NextCodec == CallCrc16 \/ CallUnmarshall \/ CallMarshall

SpecCodec == InitCodec /\ [][NextCodec]_vars

----------------------------------------------------------------------------
(* The driver's two threads, statement by statement: mqtt_client.c on koven.c *)

\* MQTTClient_setCallbacks (mqtt_client.c:79) makes the MQTT library call
\* message_arrived on its own thread while the loop of mqtt_client_run runs on the
\* main thread; both hold the same Koven pointer and mqtt_client.c takes no lock.
\* A step is one statement of koven.c; a statement that loads one field and stores
\* another field, or the same one, that koven_execute also writes is two steps.

\* the commands the callback thread executes: a Start whose baking ends at room
\* temperature at once, a Start that heats and then bakes for one tick, Stop, and an
\* action koven_execute does not know
RaceCommands ==
    { Command(ACTION_START, ROOM_TEMPERATURE, 0),
      Command(ACTION_START, ROOM_TEMPERATURE + 1, 1),
      Command(ACTION_STOP, 0, 0),
      Command(99, 0, 0) }

\* what a step of the loop thread leaves alone, and a step of the callback thread
exec_thread == <<exec_pc, exec_cmd, last>>
tick_thread == <<tick_pc, tick_reg, event>>
unit_vars == <<pre, calls, codec_vars, cycle>>

\* the loop thread: it is at line `at`, stores oven k and goes to line `to`
TickStep(at, k, to) ==
    /\ tick_pc = at
    /\ koven' = k
    /\ tick_pc' = to
    /\ UNCHANGED <<tick_reg, event, exec_thread, unit_vars>>

\* the loop thread stores one field of the EventPayload, from the oven as it is now
EventStep(at, field, value, to) ==
    /\ tick_pc = at
    /\ event' = Ptr((field :> value) @@ (IF event = NULL THEN <<>> ELSE Deref(event)))
    /\ tick_pc' = to
    /\ UNCHANGED <<koven, tick_reg, exec_thread, unit_vars>>

\* the callback thread: it is at line `at`, stores oven k and goes to line `to`
ExecStep(at, k, to) ==
    /\ exec_pc = at
    /\ koven' = k
    /\ exec_pc' = to
    /\ UNCHANGED <<exec_cmd, last, tick_thread, unit_vars>>

\* koven_execute returns from line `at` after storing oven k: the callback is done
ExecReturn(at, k) ==
    /\ exec_pc = at
    /\ koven' = k
    /\ exec_pc' = "wait"
    /\ exec_cmd' = NULL
    /\ last' = Call("koven_execute", Ptr(koven), exec_cmd, NULL)
    /\ UNCHANGED <<tick_thread, unit_vars>>

\* main, as in Init: the oven is initialised before either thread exists
InitRace == Init

\* a load of the loop thread into its register, and the store that follows it
TickLoad(at, value, to) ==
    /\ tick_pc = at
    /\ tick_reg' = value
    /\ tick_pc' = to
    /\ UNCHANGED <<koven, event, exec_thread, unit_vars>>

TickStore(at, k, to) ==
    /\ tick_pc = at
    /\ koven' = k
    /\ tick_reg' = 0
    /\ tick_pc' = to
    /\ UNCHANGED <<event, exec_thread, unit_vars>>

\* mqtt_client.c:36-43: a frame was accepted, koven_execute(koven, &cmd) is entered
\* and passes its guard (koven.c:25), both pointers being there
ExecCall ==
    \E cmd \in RaceCommands :
        /\ exec_pc = "wait"
        /\ exec_pc' = "L30"
        /\ exec_cmd' = Ptr(cmd)
        /\ UNCHANGED <<koven, last, tick_thread, unit_vars>>

\* koven.c:30 switch (cmd->action)
ExecL30 ==
    /\ exec_pc = "L30"
    /\ IF Deref(exec_cmd).action = ACTION_START THEN ExecStep("L30", koven, "L33")
       ELSE IF Deref(exec_cmd).action = ACTION_STOP THEN ExecStep("L30", koven, "L42")
       ELSE ExecReturn("L30", koven)

\* koven.c:33 if (koven->state == STATE_IDLE)
ExecL33 ==
    IF koven.state = STATE_IDLE THEN ExecStep("L33", koven, "L35")
    ELSE ExecReturn("L33", koven)

\* koven.c:35-37, the stores of Start
ExecL35 == ExecStep("L35", [koven EXCEPT !.state = STATE_PREHEATING], "L36")
ExecL36 ==
    ExecStep("L36", [koven EXCEPT !.programmed_duration = Deref(exec_cmd).duration], "L37")
ExecL37 ==
    ExecReturn("L37", [koven EXCEPT !.programmed_temperature = Deref(exec_cmd).temperature])

\* koven.c:42-45, the stores of Stop
ExecL42 == ExecStep("L42", [koven EXCEPT !.state = STATE_IDLE], "L43")
ExecL43 == ExecStep("L43", [koven EXCEPT !.remaining_time = -1], "L44")
ExecL44 == ExecStep("L44", [koven EXCEPT !.programmed_temperature = -1], "L45")
ExecL45 == ExecReturn("L45", [koven EXCEPT !.programmed_duration = -1])

\* mqtt_client.c:107-110: sleep(1) is over, a new EventPayload is declared, nothing
\* stored in it yet, and koven_tick(koven, &event) is entered and passes its guard
\* (koven.c:61), both pointers being there
TickCall ==
    /\ tick_pc = "sleep"
    /\ tick_pc' = "L66"
    /\ event' = NULL
    /\ UNCHANGED <<koven, tick_reg, exec_thread, unit_vars>>

\* koven.c:66 if (koven->state == STATE_PREHEATING)
TickL66 == TickStep("L66", koven, IF koven.state = STATE_PREHEATING THEN "L68" ELSE "L78")

\* koven.c:68 if (koven->current_temperature < koven->programmed_temperature)
TickL68 ==
    TickStep("L68", koven,
             IF koven.current_temperature < koven.programmed_temperature
             THEN "L70" ELSE "L74")

\* koven.c:70 current_temperature += 1 (koven_execute never stores this field)
TickL70 ==
    TickStep("L70", [koven EXCEPT !.current_temperature = ToInt16(@ + 1)], "L110")

\* koven.c:74 state = STATE_BAKING
TickL74 == TickStep("L74", [koven EXCEPT !.state = STATE_BAKING], "L75")

\* koven.c:75 remaining_time = programmed_duration: the load, then the store
TickL75Load == TickLoad("L75", koven.programmed_duration, "L75s")
TickL75Store == TickStore("L75s", [koven EXCEPT !.remaining_time = tick_reg], "L110")

\* koven.c:78 else if (koven->state == STATE_BAKING)
TickL78 == TickStep("L78", koven, IF koven.state = STATE_BAKING THEN "L80" ELSE "L98")

\* koven.c:80 if (koven->remaining_time > 0)
TickL80 == TickStep("L80", koven, IF koven.remaining_time > 0 THEN "L82" ELSE "L86")

\* koven.c:82 remaining_time -= 1: the load, then the store
TickL82Load == TickLoad("L82", koven.remaining_time, "L82s")
TickL82Store ==
    TickStore("L82s", [koven EXCEPT !.remaining_time = ToInt16(tick_reg - 1)], "L110")

\* koven.c:86 if (koven->current_temperature > ROOM_TEMPERATURE), else koven_init (94)
TickL86 ==
    TickStep("L86", koven, IF koven.current_temperature > ROOM_TEMPERATURE THEN "L88" ELSE "L11")

\* koven.c:88-90, the stores of the end of baking
TickL88 == TickStep("L88", [koven EXCEPT !.state = STATE_COOLING_DOWN], "L89")
TickL89 == TickStep("L89", [koven EXCEPT !.programmed_temperature = -1], "L90")
TickL90 == TickStep("L90", [koven EXCEPT !.programmed_duration = -1], "L110")

\* koven.c:98 else if (koven->state == STATE_COOLING_DOWN)
TickL98 ==
    TickStep("L98", koven, IF koven.state = STATE_COOLING_DOWN THEN "L100" ELSE "L110")

\* koven.c:100 if (koven->current_temperature > ROOM_TEMPERATURE), else koven_init (106)
TickL100 ==
    TickStep("L100", koven,
             IF koven.current_temperature > ROOM_TEMPERATURE THEN "L102" ELSE "L11")

\* koven.c:102 current_temperature -= 1
TickL102 ==
    TickStep("L102", [koven EXCEPT !.current_temperature = ToInt16(@ - 1)], "L110")

\* koven.c:11-15, the stores of koven_init called from koven_tick
TickL11 == TickStep("L11", [koven EXCEPT !.state = STATE_IDLE], "L12")
TickL12 == TickStep("L12", [koven EXCEPT !.current_temperature = ROOM_TEMPERATURE], "L13")
TickL13 == TickStep("L13", [koven EXCEPT !.remaining_time = -1], "L14")
TickL14 == TickStep("L14", [koven EXCEPT !.programmed_duration = -1], "L15")
TickL15 == TickStep("L15", [koven EXCEPT !.programmed_temperature = -1], "L110")

\* koven.c:110-114, the stores into the EventPayload; after the last, koven_tick
\* returns and the loop marshals and publishes the event, then sleeps
TickL110 == EventStep("L110", "state", koven.state, "L111")
TickL111 == EventStep("L111", "current_temperature", koven.current_temperature, "L112")
TickL112 == EventStep("L112", "remaining_time", koven.remaining_time, "L113")
TickL113 == EventStep("L113", "programmed_duration", koven.programmed_duration, "L114")
TickL114 ==
    EventStep("L114", "programmed_temperature", koven.programmed_temperature, "sleep")

ExecNext ==
    \/ ExecCall \/ ExecL30 \/ ExecL33 \/ ExecL35 \/ ExecL36 \/ ExecL37
    \/ ExecL42 \/ ExecL43 \/ ExecL44 \/ ExecL45

TickNext ==
    \/ TickCall \/ TickL66 \/ TickL68 \/ TickL70 \/ TickL74 \/ TickL75Load
    \/ TickL75Store \/ TickL78 \/ TickL80 \/ TickL82Load \/ TickL82Store
    \/ TickL86 \/ TickL88 \/ TickL89 \/ TickL90 \/ TickL98 \/ TickL100
    \/ TickL102 \/ TickL11 \/ TickL12 \/ TickL13 \/ TickL14 \/ TickL15
    \/ TickL110 \/ TickL111 \/ TickL112 \/ TickL113 \/ TickL114

NextRace == ExecNext \/ TickNext

SpecRace == InitRace /\ [][NextRace]_vars

----------------------------------------------------------------------------
(* One whole cycle: test_complete_workflow of tests/test_koven.c *)

\* how far above room temperature the cycles under test heat, and how long they bake
MaxCycleHeat == 5
MaxCycleDuration == 3

\* the Start commands of the cycles under test (the test's one is Start(30, 3))
CycleCommands ==
    {Command(ACTION_START, t, d) :
        t \in ROOM_TEMPERATURE + 1 .. ROOM_TEMPERATURE + MaxCycleHeat,
        d \in 0 .. MaxCycleDuration}

\* the tick on which a cycle begun by cmd is over, and two ticks in Idle after it
CycleTicks(cmd) == 2 * (cmd.temperature - ROOM_TEMPERATURE) + cmd.duration + 3 + 2

\* koven_init(&koven), as in Init: no cycle has begun
InitCycle ==
    \E k \in Uninitialized :
        /\ koven = koven_init(k)
        /\ event = NULL
        /\ pre = k
        /\ last = Call("koven_init", Ptr(k), NULL, NULL)
        /\ calls = 0
        /\ CodecUnused
        /\ ThreadsOutside
        /\ CycleUnused

\* koven_execute(&koven, &cmd) with a Start, once
CycleStart ==
    \E cmd \in CycleCommands :
        /\ cycle = NoCycle
        /\ koven' = koven_execute(koven, Ptr(koven), Ptr(cmd))
        /\ pre' = koven
        /\ last' = Call("koven_execute", Ptr(koven), Ptr(cmd), NULL)
        /\ cycle' = [cmd |-> Ptr(cmd), ticks |-> 0]
        /\ UNCHANGED <<event, calls, codec_vars, race_vars>>

\* koven_tick(&koven, &event), again and again after the Start
CycleTick ==
    /\ cycle.cmd # NULL
    /\ cycle.ticks < CycleTicks(Deref(cycle.cmd))
    /\ LET r == koven_tick(koven, event, Ptr(koven), Ptr(event)) IN
        /\ koven' = r[1]
        /\ event' = r[2]
    /\ pre' = koven
    /\ last' = Call("koven_tick", Ptr(koven), NULL, Ptr(event))
    /\ cycle' = [cycle EXCEPT !.ticks = @ + 1]
    /\ UNCHANGED <<calls, codec_vars, race_vars>>

NextCycle == CycleStart \/ CycleTick

SpecCycle == InitCycle /\ [][NextCycle]_vars

----------------------------------------------------------------------------
(* The driver fed with raw messages: message_arrived of mqtt_client.c *)

\* the commands whose frames arrive: two Starts, Stop, and three actions koven_execute
\* does not know
FrameCommands ==
    { Command(ACTION_START, ROOM_TEMPERATURE, 0), Command(ACTION_START, ROOM_TEMPERATURE + 1, 1),
      Command(ACTION_STOP, 0, 0), Command(0, ROOM_TEMPERATURE + 1, 1),
      Command(3, ROOM_TEMPERATURE + 1, 1), Command(255, -1, -1) }

GoodFrames == {FrameOf(MSG_TYPE_COMMAND, COMMAND_PAYLOAD_SIZE, c) : c \in FrameCommands}

\* the messages that arrive: good frames, also followed by one more byte, and frames
\* of Start and Stop that are empty, cut short, of another type, of another declared
\* size, or damaged in the header, the payload or the CRC
DriverMessages ==
    GoodFrames
    \cup {f \o <<0>> : f \in GoodFrames}
    \cup {<<>>}
    \cup UNION { { SubSeq(FrameOf(MSG_TYPE_COMMAND, COMMAND_PAYLOAD_SIZE, c), 1, 9),
                   FrameOf(MSG_TYPE_EVENT, COMMAND_PAYLOAD_SIZE, c),
                   FrameOf(MSG_TYPE_COMMAND, 4, c),
                   FlipBit(FrameOf(MSG_TYPE_COMMAND, COMMAND_PAYLOAD_SIZE, c), 0),
                   FlipBit(FrameOf(MSG_TYPE_COMMAND, COMMAND_PAYLOAD_SIZE, c), 25),
                   FlipBit(FrameOf(MSG_TYPE_COMMAND, COMMAND_PAYLOAD_SIZE, c), 79) } :
                 c \in {Command(ACTION_START, ROOM_TEMPERATURE + 1, 1), Command(ACTION_STOP, 0, 0)} }

\* what unmarshall_command_frame(payload, payloadlen, &cmd) returns for each message
\* that arrives, cmd being the callback's local
UnmarshalledMessage ==
    [payload \in DriverMessages |->
        unmarshall_command_frame(Ptr(payload), Len(payload), Ptr(UnwrittenCommand))]

\* main, as in Init
InitFrames == Init

\* message_arrived calling koven_execute whatever unmarshall_command_frame returned
FrameArrived_unchecked ==
    \E payload \in DriverMessages :
        LET r == UnmarshalledMessage[payload]
        IN  /\ codec_call' = CodecCall("unmarshall_command_frame", Ptr(payload), Len(payload), TRUE)
            /\ codec_ret' = r
            /\ koven' = koven_execute(koven, Ptr(koven), r.cmd)
            /\ last' = Call("koven_execute", Ptr(koven), r.cmd, NULL)
            /\ pre' = koven
            /\ UNCHANGED <<event, calls, race_vars, cycle>>

\* message_arrived(context, topicName, topicLen, message): an empty message returns
\* at once (lines 25-30); otherwise the payload is unmarshalled into the local cmd
\* and, when that returned 0, koven_execute(koven, &cmd) is called (lines 35-49)
FrameArrived ==
    \E payload \in DriverMessages :
        IF Len(payload) = 0
        THEN /\ last' = Call("message_arrived", Ptr(koven), NULL, NULL)
             /\ codec_call' = NoCall
             /\ codec_ret' = NoReturn
             /\ pre' = koven
             /\ UNCHANGED <<koven, event, calls, race_vars, cycle>>
        ELSE LET r == UnmarshalledMessage[payload]
             IN  /\ codec_call' = CodecCall("unmarshall_command_frame", Ptr(payload),
                                            Len(payload), TRUE)
                 /\ codec_ret' = r
                 /\ IF r.rc = 0
                    THEN /\ koven' = koven_execute(koven, Ptr(koven), r.cmd)
                         /\ last' = Call("koven_execute", Ptr(koven), r.cmd, NULL)
                    ELSE /\ koven' = koven
                         /\ last' = Call("message_arrived", Ptr(koven), NULL, NULL)
                 /\ pre' = koven
                 /\ UNCHANGED <<event, calls, race_vars, cycle>>

NextFrames == FrameArrived \/ Tick

SpecFrames == InitFrames /\ [][NextFrames]_vars

----------------------------------------------------------------------------
(* The driver with a last command: the loop of mqtt_client_run goes on ticking *)

\* how many commands arrive before the last one has arrived
MaxCommands == 3

\* main, as in Init; calls counts the commands executed so far
InitLive == Init

\* message_arrived, as in MessageArrived, for as long as commands still come
LiveMessageArrived ==
    \E cmd \in DriverCommands :
        /\ calls < MaxCommands
        /\ koven' = koven_execute(koven, Ptr(koven), Ptr(cmd))
        /\ pre' = koven
        /\ last' = Call("koven_execute", Ptr(koven), Ptr(cmd), NULL)
        /\ calls' = calls + 1
        /\ UNCHANGED <<event, codec_vars, race_vars, cycle>>

NextLive == LiveMessageArrived \/ Tick

\* while (running) { sleep(1); koven_tick(koven, &event); ... }: as long as the
\* process runs the loop comes back to koven_tick, so a tick that would change
\* something is not put off for ever
SpecLive == InitLive /\ [][NextLive]_vars /\ WF_vars(Tick)

----------------------------------------------------------------------------
(* Properties *)

\* an Oven value, fields in the order (state, current_temperature, remaining_time,
\* programmed_temperature, programmed_duration)
Oven(s, ct, rt, pt, pd) ==
    [state |-> s, current_temperature |-> ct, remaining_time |-> rt,
     programmed_duration |-> pd, programmed_temperature |-> pt]

\* the last call was koven_execute on the Oven with a command of action a
Executed(a) ==
    /\ last.op = "koven_execute"
    /\ ~last.oven_null
    /\ last.cmd # NULL
    /\ Deref(last.cmd).action = a

\* the last call was koven_tick with an Oven and an EventPayload
Ticked == last.op = "koven_tick" /\ ~last.oven_null /\ ~last.event_null

\* C1: koven_init leaves any Oven, whatever its state and fields were, exactly
\* (Idle, 25, -1, -1, -1), and a second koven_init changes nothing more.
C1_InitResets ==
    /\ last.op = "koven_init" => koven = Oven(STATE_IDLE, 25, -1, -1, -1)
    /\ koven_init(koven_init(koven)) = koven_init(koven)

C1_Witness ==
    /\ last.op = "koven_init"
    /\ pre.state = STATE_BAKING
    /\ pre.current_temperature = INT16_MAX
    /\ pre.remaining_time = 1
    /\ pre.programmed_temperature = INT16_MIN

\* C2: a Start(T, D) executed on an Idle oven the driver can reach gives
\* (Preheating, current_temperature as before, -1, T, D).
C2_StartFromIdle ==
    (Executed(ACTION_START) /\ pre.state = STATE_IDLE) =>
        koven = Oven(STATE_PREHEATING, pre.current_temperature, -1,
                     Deref(last.cmd).temperature, Deref(last.cmd).duration)

C2_Witness ==
    /\ Executed(ACTION_START)
    /\ pre.state = STATE_IDLE
    /\ pre.current_temperature > ROOM_TEMPERATURE
    /\ Deref(last.cmd).temperature = INT16_MIN
    /\ Deref(last.cmd).duration = MaxDuration

\* C3: a Start executed on an oven that is Preheating, Baking or CoolingDown leaves
\* all five fields as they were.
C3_StartIgnored ==
    (Executed(ACTION_START) /\ pre.state # STATE_IDLE) => koven = pre

C3_Witness ==
    /\ Executed(ACTION_START)
    /\ pre.state = STATE_BAKING
    /\ Deref(last.cmd).temperature # pre.programmed_temperature
    /\ Deref(last.cmd).duration # pre.programmed_duration

C5_StopCoolsDown ==
    /\ (/\ Executed(ACTION_STOP)
        /\ pre.state \in {STATE_PREHEATING, STATE_BAKING}
        /\ pre.current_temperature > ROOM_TEMPERATURE) =>
            koven = Oven(STATE_COOLING_DOWN, pre.current_temperature, -1, -1, -1)
    /\ (Ticked /\ pre.state = STATE_COOLING_DOWN) =>
            IF pre.current_temperature > ROOM_TEMPERATURE
            THEN koven = [pre EXCEPT !.current_temperature = pre.current_temperature - 1]
            ELSE koven = Oven(STATE_IDLE, 25, -1, -1, -1)

\* C6 as stated: remaining_time is -1 in every reachable state that is not Baking.
C6_TimerOnlyWhileBaking ==
    koven.state # STATE_BAKING => koven.remaining_time = -1

\* C6 (amended): remaining_time is -1 in every reachable Idle or Preheating state;
\* in CoolingDown it is the value Baking ended with, which is never above 0.
C6_TimerIdleOrPreheating ==
    /\ koven.state \in {STATE_IDLE, STATE_PREHEATING} => koven.remaining_time = -1
    /\ koven.state = STATE_COOLING_DOWN => koven.remaining_time <= 0

C6_Witness ==
    /\ Ticked
    /\ pre.state = STATE_COOLING_DOWN
    /\ pre.remaining_time = 0
    /\ koven.state = STATE_IDLE

\* C7: programmed_temperature and programmed_duration are both -1 in every
\* reachable Idle or CoolingDown state.
C7_ProgrammeCleared ==
    koven.state \in {STATE_IDLE, STATE_COOLING_DOWN} =>
        koven.programmed_temperature = -1 /\ koven.programmed_duration = -1

C7_Witness ==
    /\ Ticked
    /\ pre.state = STATE_BAKING
    /\ pre.programmed_temperature > ROOM_TEMPERATURE
    /\ pre.programmed_duration = MaxDuration
    /\ koven.state = STATE_COOLING_DOWN

\* C8: current_temperature is room temperature, 25, in every reachable Idle state.
C8_IdleAtRoomTemperature ==
    koven.state = STATE_IDLE => koven.current_temperature = ROOM_TEMPERATURE

\* C9: a tick in Preheating below the target raises current_temperature by exactly 1
\* and changes nothing else; at or above the target it changes the state to Baking
\* and sets remaining_time to programmed_duration, without heating.
C9_TickPreheating ==
    (Ticked /\ pre.state = STATE_PREHEATING) =>
        IF pre.current_temperature < pre.programmed_temperature
        THEN koven = Oven(STATE_PREHEATING, pre.current_temperature + 1, pre.remaining_time,
                          pre.programmed_temperature, pre.programmed_duration)
        ELSE koven = Oven(STATE_BAKING, pre.current_temperature, pre.programmed_duration,
                          pre.programmed_temperature, pre.programmed_duration)

C9_Witness ==
    /\ Ticked
    /\ pre.state = STATE_PREHEATING
    /\ pre.current_temperature = pre.programmed_temperature
    /\ pre.programmed_temperature = ROOM_TEMPERATURE + 1
    /\ koven.state = STATE_BAKING
    /\ koven.current_temperature = ROOM_TEMPERATURE + 1

\* C10: a tick in Baking with remaining_time above 0 lowers remaining_time by exactly
\* 1 and changes nothing else.
C10_TickBakingCountsDown ==
    (Ticked /\ pre.state = STATE_BAKING /\ pre.remaining_time > 0) =>
        koven = Oven(STATE_BAKING, pre.current_temperature, pre.remaining_time - 1,
                     pre.programmed_temperature, pre.programmed_duration)

C10_Witness ==
    /\ Ticked
    /\ pre.state = STATE_BAKING
    /\ pre.remaining_time = 1
    /\ koven.remaining_time = 0
    /\ koven.state = STATE_BAKING

\* the last call was koven_tick with an Oven but a NULL EventPayload
TickedWithoutEvent == last.op = "koven_tick" /\ ~last.oven_null /\ last.event_null

\* C11: a tick in Baking with remaining_time 0: above room temperature the state
\* becomes CoolingDown and both programmed fields -1, remaining_time and
\* current_temperature keeping their values; at or below room temperature the Oven
\* is re-initialised to (Idle, 25, -1, -1, -1).
C11_TickBakingEnds ==
    (Ticked /\ pre.state = STATE_BAKING /\ pre.remaining_time = 0) =>
        IF pre.current_temperature > 25
        THEN koven = Oven(STATE_COOLING_DOWN, pre.current_temperature, 0, -1, -1)
        ELSE koven = Oven(STATE_IDLE, 25, -1, -1, -1)

C11_Witness ==
    /\ Ticked
    /\ pre.state = STATE_BAKING
    /\ pre.remaining_time = 0
    /\ pre.current_temperature = ROOM_TEMPERATURE + 1
    /\ pre.programmed_duration = INT16_MAX
    /\ koven.state = STATE_COOLING_DOWN
    /\ koven.remaining_time = 0

\* C12: a tick in CoolingDown above room temperature lowers current_temperature by
\* exactly 1 and changes nothing else; otherwise it re-initialises the Oven to
\* (Idle, 25, -1, -1, -1). So the tick that arrives at 25 still leaves CoolingDown.
C12_TickCoolingDown ==
    (Ticked /\ pre.state = STATE_COOLING_DOWN) =>
        IF pre.current_temperature > 25
        THEN koven = Oven(STATE_COOLING_DOWN, pre.current_temperature - 1,
                          pre.remaining_time, pre.programmed_temperature,
                          pre.programmed_duration)
        ELSE koven = Oven(STATE_IDLE, 25, -1, -1, -1)

C12_Witness ==
    /\ Ticked
    /\ pre.state = STATE_COOLING_DOWN
    /\ pre.current_temperature = ROOM_TEMPERATURE + 1
    /\ koven.state = STATE_COOLING_DOWN
    /\ koven.current_temperature = ROOM_TEMPERATURE

C14_EventAfterTransition ==
    Ticked =>
        /\ event # NULL
        /\ Deref(event).state = koven.state
        /\ Deref(event).current_temperature = koven.current_temperature
        /\ Deref(event).remaining_time = koven.remaining_time
        /\ Deref(event).programmed_duration = koven.programmed_duration
        /\ Deref(event).programmed_temperature = koven.programmed_temperature

C14_Witness ==
    /\ Ticked
    /\ pre.state = STATE_PREHEATING
    /\ koven.state = STATE_BAKING
    /\ Deref(event).state = STATE_BAKING
    /\ Deref(event).remaining_time = pre.programmed_duration
    /\ Deref(event).remaining_time # pre.remaining_time

\* C15 as stated: a koven_tick with an Oven but a NULL EventPayload still applies
\* the transition of the current state to the Oven.
C15_TickWithoutEventUpdates ==
    TickedWithoutEvent => koven = tick_transition(pre)

\* C15 (amended): a koven_tick with an Oven but a NULL EventPayload returns at its
\* guard: all five fields of the Oven are as before and no snapshot is produced.
C15_TickWithoutEventIsNoOp ==
    TickedWithoutEvent => (koven = pre /\ (calls = 1 => event = NULL))

C15_Witness ==
    /\ TickedWithoutEvent
    /\ pre.state = STATE_PREHEATING
    /\ pre.current_temperature < pre.programmed_temperature
    /\ koven.current_temperature = pre.current_temperature
    /\ calls = 1

\* unmarshall_command_frame was called with a buffer and a CommandPayload and returned
Decoded ==
    /\ codec_call.fn = "unmarshall_command_frame"
    /\ codec_ret.done
    /\ codec_call.data # NULL
    /\ codec_call.out

\* two bytes read as a little-endian two's-complement 16-bit number
SignedLE(lo, hi) ==
    IF lo + 256 * hi >= 32768 THEN lo + 256 * hi - 65536 ELSE lo + 256 * hi

\* C17: for every buffer unmarshall_command_frame accepts, action is byte 3,
\* temperature bytes 4-5 and duration bytes 6-7 read as little-endian signed 16-bit
\* (0xF6 0xFF is -10, 0xFF 0x7F is 32767), whatever the action byte is.
C17_DecodedFields ==
    (Decoded /\ codec_ret.rc = 0) =>
        LET d == Deref(codec_call.data)
            c == Deref(codec_ret.cmd)
        IN  /\ c.action = At(d, 3)
            /\ c.temperature = SignedLE(At(d, 4), At(d, 5))
            /\ c.duration = SignedLE(At(d, 6), At(d, 7))
            /\ (At(d, 4) = 246 /\ At(d, 5) = 255) => c.temperature = -10
            /\ (At(d, 6) = 255 /\ At(d, 7) = 127) => c.duration = 32767

C17_Witness ==
    /\ Decoded
    /\ codec_ret.rc = 0
    /\ At(Deref(codec_call.data), 3) = 255
    /\ At(Deref(codec_call.data), 4) = 246
    /\ At(Deref(codec_call.data), 5) = 255
    /\ Deref(codec_ret.cmd) = Command(255, -10, 32767)

\* C18: called with a buffer and a CommandPayload, unmarshall_command_frame returns
\* 0 exactly when the length is at least 10, byte 0 is 0x01, bytes 1-2 are 5
\* little-endian and bytes 8-9 are the little-endian crc16_usb of bytes 0-7;
\* otherwise it returns -1.
C18_AcceptsExactly ==
    Decoded =>
        LET d == Deref(codec_call.data) IN
            /\ codec_ret.rc \in {0, -1}
            /\ codec_ret.rc = 0 <=>
                 /\ codec_call.len >= 10
                 /\ At(d, 0) = 1
                 /\ At(d, 1) + 256 * At(d, 2) = 5
                 /\ At(d, 8) + 256 * At(d, 9) = crc16_usb(SubSeq(d, 1, 8), 8)

C18_Witness ==
    /\ Decoded
    /\ codec_ret.rc = -1
    /\ codec_call.len = 10
    /\ At(Deref(codec_call.data), 0) = 1
    /\ At(Deref(codec_call.data), 1) = 5
    /\ At(Deref(codec_call.data), 2) = 1
    /\ Deref(codec_call.data) \in WrongSizeFrames

\* C19: a valid 10-byte command frame with any single bit inverted, in the CRC
\* bytes, the header or the payload, is rejected.
C19_SingleBitFlipRejected ==
    (Decoded /\ Deref(codec_call.data) \in FlippedFrames) => codec_ret.rc = -1

C19_Witness ==
    /\ Decoded
    /\ codec_ret.rc = -1
    /\ \E f \in ValidFrames : Deref(codec_call.data) = FlipBit(f, 79)

\* C20: crc16_usb gives 0xB4C8 for the nine bytes "123456789" and 0x0000 for a
\* zero-length input (and, as the tests require, not 0 for 0xAA, ten 0x00, ten 0xFF).
C20_CrcKnownValues ==
    (codec_call.fn = "crc16_usb" /\ codec_ret.done) =>
        /\ (codec_call.data = Ptr(CheckString) /\ codec_call.len = 9) => codec_ret.rc = 46280
        /\ codec_call.len = 0 => codec_ret.rc = 0
        /\ codec_call.len \in {1, 10} => codec_ret.rc # 0
        /\ codec_ret.rc \in 0 .. 65535

C20_Witness ==
    /\ codec_call.fn = "crc16_usb"
    /\ codec_ret.done
    /\ codec_call.data = Ptr(CheckString)
    /\ codec_ret.rc = 46280

\* the callback thread is inside koven_execute, the loop thread inside koven_tick
InExecute == exec_pc # "wait"
InTick == tick_pc # "sleep"

\* C16: the driver serialises access to the Oven: koven_execute, called from
\* message_arrived on the MQTT library's thread, is never in progress while
\* koven_tick, called from the loop of mqtt_client_run, is in progress on the same
\* Oven; at most one caller is inside the core at any moment
C16_Serialised == ~(InExecute /\ InTick)

\* marshall_event_frame has returned
MarshallReturned == codec_call.fn = "marshall_event_frame" /\ codec_ret.done

\* the two bytes of v in two's complement, low byte first
LowByte(v) == (IF v < 0 THEN v + 65536 ELSE v) % 256
HighByte(v) == (IF v < 0 THEN v + 65536 ELSE v) \div 256

\* bytes i and i+1 (counted from 0) of buffer b hold v, and read back as signed
\* little-endian they give v
HoldsInt16(b, i, v) ==
    /\ b[i + 1] = LowByte(v)
    /\ b[i + 2] = HighByte(v)
    /\ SignedLE(b[i + 1], b[i + 2]) = v

\* C21: for every Event and any buffer of at least 14 bytes, marshall_event_frame
\* returns 14 and writes 0x02, then 9 little-endian, then the state byte, then
\* current_temperature, remaining_time, programmed_duration, programmed_temperature
\* as 2 bytes little-endian two's complement each, then crc16_usb of bytes 0-11
\* little-endian; each 2-byte field read back as signed gives the original value
C21_EventFrameLayout ==
    (MarshallReturned /\ codec_call.data # NULL /\ codec_call.out # NULL /\ codec_call.len >= 14) =>
        /\ codec_ret.rc = 14
        /\ LET b == Deref(codec_ret.cmd)
               ev == Deref(codec_call.data)
           IN  /\ Len(b) = codec_call.len
               /\ b[1] = 2 /\ b[2] = 9 /\ b[3] = 0
               /\ b[4] = ev.state
               /\ HoldsInt16(b, 4, ev.current_temperature)
               /\ HoldsInt16(b, 6, ev.remaining_time)
               /\ HoldsInt16(b, 8, ev.programmed_duration)
               /\ HoldsInt16(b, 10, ev.programmed_temperature)
               /\ b[13] + 256 * b[14] = crc16_usb(SubSeq(b, 1, 12), 12)

\* an event with state byte 255 and the fields -32768, 32767, -256, 255 was written
\* into a buffer of 20 bytes
C21_Witness ==
    /\ MarshallReturned
    /\ codec_call.data = Ptr(Event(255, INT16_MIN, INT16_MAX, -256, 255))
    /\ codec_call.len = 20
    /\ codec_ret.rc = 14
    /\ SubSeq(Deref(codec_ret.cmd), 4, 12) = <<255, 0, 128, 255, 127, 0, 255, 255, 0>>

\* C22: marshall_event_frame returns the failure value exactly when the event or
\* the buffer is absent or buffer_size < 14, and then the buffer is as it was
C22_MarshallFailsExactly ==
    MarshallReturned =>
        /\ (codec_ret.rc = -1) <=>
              (codec_call.data = NULL \/ codec_call.out = NULL \/ codec_call.len < 14)
        /\ (codec_ret.rc = -1) => (codec_ret.cmd = codec_call.out)
        /\ (codec_ret.rc # -1) => (codec_ret.rc = 14)

\* a call with an event and a buffer of 13 bytes failed and left the 13 bytes alone
C22_Witness ==
    /\ MarshallReturned
    /\ codec_call.data # NULL
    /\ codec_call.len = 13
    /\ codec_ret.rc = -1
    /\ codec_ret.cmd = Ptr([i \in 1 .. 13 |-> 170])

\* the frame error the call in codec_call runs into, told from its arguments alone;
\* "none" when the call succeeds, is not a codec call on a frame or lacks a pointer
FrameErrorCause ==
    IF codec_call.fn = "unmarshall_command_frame" /\ codec_call.data # NULL
    THEN IF ~codec_call.out THEN "none"
         ELSE LET d == Deref(codec_call.data) IN
              IF codec_call.len < 10 THEN "undersized input"
              ELSE IF d[1] # 1 THEN "wrong message type"
              ELSE IF d[2] + 256 * d[3] # 5 THEN "wrong payload size"
              ELSE IF codec_call.len < 5 + d[2] + 256 * d[3] THEN "truncated frame"
              ELSE IF d[9] + 256 * d[10] # crc16_usb(SubSeq(d, 1, 8), 8) THEN "CRC mismatch"
              ELSE "none"
    ELSE IF codec_call.fn = "marshall_event_frame" /\ codec_call.data # NULL
    THEN IF codec_call.out # NULL /\ codec_call.len < 14 THEN "undersized buffer" ELSE "none"
    ELSE "none"

\* what the codec returns for one call of each cause
ResultOfCause(cause) ==
    LET stop == Command(ACTION_STOP, 0, 0)
        good == FrameOf(MSG_TYPE_COMMAND, COMMAND_PAYLOAD_SIZE, stop)
        out == Ptr(UnwrittenCommand)
    IN  CASE cause = "undersized input" ->
                unmarshall_command_frame(Ptr(SubSeq(good, 1, 9)), 9, out).rc
          [] cause = "wrong message type" ->
                unmarshall_command_frame(Ptr(FrameOf(2, COMMAND_PAYLOAD_SIZE, stop)), 10, out).rc
          [] cause = "wrong payload size" ->
                unmarshall_command_frame(Ptr(FrameOf(MSG_TYPE_COMMAND, 4, stop)), 10, out).rc
          [] cause = "CRC mismatch" ->
                unmarshall_command_frame(Ptr(FlipBit(good, 79)), 10, out).rc
          [] cause = "undersized buffer" ->
                marshall_event_frame(Ptr(Event(STATE_IDLE, 25, -1, -1, -1)),
                                     Ptr(<<0, 0, 0, 0, 0>>), 5).rc

\* the causes some call can run into (a frame that passed the size comparison is
\* never shorter than its declared length, the input being at least 10 bytes)
ReachableCauses ==
    {"undersized input", "wrong message type", "wrong payload size", "CRC mismatch",
     "undersized buffer"}

\* C23: each frame error cause is returned as a distinct result value, so that the
\* caller can tell from the returned result alone which cause occurred: the result
\* of a failed call is not the result any other cause gives
C23_DistinctResults ==
    (codec_ret.done /\ FrameErrorCause # "none") =>
        \A c \in ReachableCauses \ {FrameErrorCause} : codec_ret.rc # ResultOfCause(c)

\* C23 as amended: every frame error cause is returned as the same value -1
C23_OneFailureValue ==
    (codec_ret.done /\ FrameErrorCause # "none") => codec_ret.rc = -1

\* a frame of 10 bytes with a good header and a wrong CRC was refused with -1
C23_Witness ==
    /\ codec_ret.done
    /\ FrameErrorCause = "CRC mismatch"
    /\ codec_call.len = 10
    /\ codec_ret.rc = -1

C25_CycleTimeline ==
    (cycle.cmd # NULL /\ cycle.ticks >= 1) =>
        LET T == Deref(cycle.cmd).temperature
            D == Deref(cycle.cmd).duration
            h == T - 25
            n == cycle.ticks
            expected ==
                IF n <= h THEN Oven(STATE_PREHEATING, 25 + n, -1, T, D)
                ELSE IF n <= h + 1 + D THEN Oven(STATE_BAKING, T, D - (n - (h + 1)), T, D)
                ELSE IF n <= h + 1 + D + h + 1
                     THEN Oven(STATE_COOLING_DOWN, T - (n - (h + 2 + D)), 0, -1, -1)
                ELSE Oven(STATE_IDLE, 25, -1, -1, -1)
        IN  /\ koven = expected
            /\ Deref(event).state = expected.state
            /\ (koven.state = STATE_IDLE) <=> (n >= 2 * (T - 25) + D + 3)
            /\ (T = 30 /\ D = 3) => ((koven.state = STATE_IDLE) <=> (n >= 16))

\* the sixteenth tick after Start(30, 3) is the first to report Idle
C25_Witness ==
    /\ cycle = [cmd |-> Ptr(Command(ACTION_START, 30, 3)), ticks |-> 16]
    /\ pre.state = STATE_COOLING_DOWN
    /\ koven.state = STATE_IDLE
    /\ Deref(event).state = STATE_IDLE

\* the oven is in a running cycle: preheating or baking
Running(k) == k.state \in {STATE_PREHEATING, STATE_BAKING}

\* C26: a running cycle cannot be redirected: from the moment a Start(T, D) is
\* accepted until the oven leaves Baking or a Stop is executed,
\* programmed_temperature = T and programmed_duration = D in every state, whatever
\* further Start commands and ticks occur: the accepted Start sets them, and no call
\* that finds the cycle running and leaves it running changes them
C26_CycleNotRedirected ==
    /\ (Executed(ACTION_START) /\ pre.state = STATE_IDLE) =>
          /\ koven.programmed_temperature = Deref(last.cmd).temperature
          /\ koven.programmed_duration = Deref(last.cmd).duration
    /\ (last.op \in {"koven_execute", "koven_tick"} /\ Running(pre) /\ Running(koven)) =>
          /\ koven.programmed_temperature = pre.programmed_temperature
          /\ koven.programmed_duration = pre.programmed_duration

\* a Start with another target and duration arrived while the oven was baking and
\* the programme stayed
C26_Witness ==
    /\ Executed(ACTION_START)
    /\ pre.state = STATE_BAKING
    /\ Deref(last.cmd).temperature # pre.programmed_temperature
    /\ Deref(last.cmd).duration # pre.programmed_duration
    /\ koven = pre

\* C27: in every reachable state, for Start commands carrying any signed 16-bit
\* duration, the Baking tick that does not decrement remaining_time (the tick that
\* leaves Baking) is entered with remaining_time exactly 0; equivalently
\* remaining_time is never negative while the state is Baking
C27_BakingTimerNotNegative ==
    /\ koven.state = STATE_BAKING => koven.remaining_time >= 0
    /\ (Ticked /\ pre.state = STATE_BAKING /\ koven.state # STATE_BAKING) =>
          pre.remaining_time = 0

\* the callback returned without calling koven_execute
NotExecuted == last.op = "message_arrived"

\* C28: invalid input has no effect on the oven: a received message that fails
\* unmarshall_command_frame never reaches koven_execute, and a correctly framed
\* command whose action byte is neither Start (1) nor Stop (2) is decoded but
\* ignored; in both cases all five Oven fields are the same after message_arrived
\* as before
C28_InvalidInputNoEffect ==
    /\ (last.op = "koven_execute") =>
          /\ FrameErrorCause = "none"
          /\ codec_ret.rc = 0
          /\ last.cmd = codec_ret.cmd
    /\ (codec_ret.done /\ FrameErrorCause # "none" /\ last.op # "koven_tick") =>
          NotExecuted /\ koven = pre
    /\ (last.op = "koven_execute" /\ Deref(codec_call.data)[4] \notin {1, 2}) =>
          /\ Deref(last.cmd).action = Deref(codec_call.data)[4]
          /\ koven = pre

\* a Start frame with one bit of its CRC inverted arrived while the oven was Idle and
\* left it Idle
C28_Witness ==
    /\ NotExecuted
    /\ FrameErrorCause = "CRC mismatch"
    /\ Deref(codec_call.data)[4] = ACTION_START
    /\ pre.state = STATE_IDLE
    /\ koven = pre

\* a good frame with action byte 255 arrived while the oven was baking
C28_WitnessUnknownAction ==
    /\ last.op = "koven_execute"
    /\ Deref(last.cmd).action = 255
    /\ pre.state = STATE_BAKING
    /\ koven = pre

\* C29: in every state reachable from koven_init by koven_execute calls (Start and
\* Stop with any arguments) and koven_tick calls, current_temperature >= 25; so the
\* "at or below room temperature" branches of the Baking and CoolingDown ticks are
\* only ever taken at exactly 25
C29_NeverBelowRoom ==
    /\ koven.current_temperature >= 25
    /\ (Ticked /\ pre.state = STATE_BAKING /\ koven.state = STATE_IDLE) =>
          pre.current_temperature = 25
    /\ (Ticked /\ pre.state = STATE_COOLING_DOWN /\ koven.state = STATE_IDLE) =>
          pre.current_temperature = 25

\* the oven cooled from 26 to 25 and the next tick, entered at 25, made it Idle
C29_Witness ==
    /\ Ticked
    /\ pre = Oven(STATE_COOLING_DOWN, 25, 0, -1, -1)
    /\ koven = Oven(STATE_IDLE, 25, -1, -1, -1)

\* C30: no tick overflows or wraps a signed 16-bit field: current_temperature is
\* incremented only when it is below 32767 and decremented only when above 25,
\* remaining_time is decremented only when above 0, any other change of the two is an
\* assignment of 25, of -1 or of programmed_duration, and every field stays within
\* -32768..32767
C30_NoOverflow ==
    Ticked =>
        /\ \/ koven.current_temperature = pre.current_temperature
           \/ /\ koven.current_temperature = pre.current_temperature + 1
              /\ pre.current_temperature < 32767
           \/ /\ koven.current_temperature = pre.current_temperature - 1
              /\ pre.current_temperature > 25
           \/ koven.current_temperature = 25 /\ koven.state = STATE_IDLE
        /\ \/ koven.remaining_time = pre.remaining_time
           \/ /\ koven.remaining_time = pre.remaining_time - 1
              /\ pre.remaining_time > 0
           \/ koven.remaining_time = -1 /\ koven.state = STATE_IDLE
           \/ /\ koven.remaining_time = pre.programmed_duration
              /\ pre.state = STATE_PREHEATING /\ koven.state = STATE_BAKING
        /\ \A f \in {"current_temperature", "remaining_time", "programmed_duration",
                     "programmed_temperature"} : koven[f] \in -32768 .. 32767

\* a Preheating oven at 32767 with target 32767 was ticked: it went to Baking at 32767
C30_Witness ==
    /\ Ticked
    /\ pre.state = STATE_PREHEATING
    /\ pre.current_temperature = INT16_MAX
    /\ pre.programmed_temperature = INT16_MAX
    /\ koven.state = STATE_BAKING
    /\ koven.current_temperature = INT16_MAX

\* C31: every cycle terminates: from any reachable state, if no further command is
\* executed and ticks keep occurring, the oven eventually reaches Idle and then
\* stays Idle, for any accepted Start(T, D) within the bounds of the model
C31_CycleTerminates == <>[](koven.state = STATE_IDLE)

\* the last command was a Start, and ticks alone took the oven through cooling down
\* back to Idle
C31_Witness ==
    /\ calls = MaxCommands
    /\ Ticked
    /\ pre.state = STATE_COOLING_DOWN
    /\ koven = Oven(STATE_IDLE, ROOM_TEMPERATURE, -1, -1, -1)

\* unmarshall_command_frame has returned from a call with both pointers and an input
\* of at least 10 bytes
DecodedLong == Decoded /\ codec_call.len >= 10

\* C32: the outcome of unmarshall_command_frame depends only on the first 10 bytes:
\* any input of at least 10 bytes gets the result and the Command that its first 10
\* bytes alone get, so two inputs that agree on bytes 0-9 get the same, bytes after
\* the tenth are ignored, and the "frame too short" return after the payload-size
\* comparison is never the one that ends the call
C32_FirstTenBytesDecide ==
    DecodedLong =>
        LET d == Deref(codec_call.data)
            line == unmarshall_return_line(codec_call.data, codec_call.len,
                                           Ptr(UnwrittenCommand))
        IN  /\ codec_ret = unmarshall_command_frame(Ptr(SubSeq(d, 1, 10)), 10,
                                                    Ptr(UnwrittenCommand))
            /\ line # 93
            /\ (codec_ret.rc = 0) <=> (line = 114)

\* a Start frame followed by a Stop frame, 20 bytes, was decoded as the Start
C32_Witness ==
    /\ DecodedLong
    /\ codec_call.len = 20
    /\ Deref(codec_call.data) =
          FrameOf(MSG_TYPE_COMMAND, COMMAND_PAYLOAD_SIZE, Command(ACTION_START, 200, 480))
          \o FrameOf(MSG_TYPE_COMMAND, COMMAND_PAYLOAD_SIZE, Command(ACTION_STOP, 0, 0))
    /\ codec_ret.rc = 0
    /\ Deref(codec_ret.cmd) = Command(ACTION_START, 200, 480)

\* the last koven_execute that returned was a Stop's, and the callback thread has
\* not accepted a Start since (it accepts one by passing the test of line 33)
StopStands ==
    /\ last.op = "koven_execute"
    /\ last.cmd # NULL
    /\ Deref(last.cmd).action = ACTION_STOP
    /\ exec_pc \notin {"L35", "L36", "L37"}

\* C33: with the koven_execute of message_arrived running between any two statements
\* of a koven_tick of the loop, once a Stop's koven_execute has returned the Oven is
\* Idle with remaining_time = programmed_temperature = programmed_duration = -1 and
\* stays so until the next Start is accepted: a tick that was in progress never
\* overwrites what Stop stored
C33_StopStands ==
    StopStands =>
        /\ koven.state = STATE_IDLE
        /\ koven.remaining_time = -1
        /\ koven.programmed_temperature = -1
        /\ koven.programmed_duration = -1

====
